---- MODULE Spec2Model ----
(***************************************************************************)
(* Model of the replacer (swfsql/mtl-tools, replacer/src): the yew         *)
(* component Model with its update() message handlers, and the async       *)
(* engine replace_text that update() spawns with send_future.              *)
(*                                                                         *)
(* A Rust String is a sequence of one-character strings (<<"a","b">>).     *)
(* A regex::Regex is modelled for literal pattern text: the text itself    *)
(* (the empty text compiles to the regex that matches the empty string at  *)
(* every position).  Pattern text holding "(" does not compile (an         *)
(* unclosed group).  Replacement templates hold no "$", so a template      *)
(* expands to itself.  The CRC32 checksum is taken as exact: the checksum  *)
(* of a content is the content.                                            *)
(***************************************************************************)
EXTENDS Integers, Sequences, FiniteSets, TLC

VARIABLES
    text_projects,              \* Model.text_projects: Seq of [input, output, output_status]
    active_text_project,        \* Model.active_text_project (1-based index)
    replacement_in_progress,    \* Model.replacement_in_progress
    replacement_cancel_signal,  \* Model.replacement_cancel_signal (the shared AtomicBool)
    steps,                      \* Model.steps: Seq of [enabled, regexes]
    futures,                    \* the futures spawned by send_future, in spawn order
    handled                     \* number of user messages update() has handled

vars == <<text_projects, active_text_project, replacement_in_progress,
          replacement_cancel_signal, steps, futures, handled>>

----------------------------------------------------------------------------
(* Bounds of the model *)

MaxProjects == 2
MaxSteps == 2
MaxRules == 2
\* the number of user messages (clicks and edits) of a behaviour
MaxUser == 7
\* the longest history of loop-top contents a future keeps (observation only)
HistCap == 16

\* the texts the user types
Searches == {<<>>, <<"a">>, <<"(">>}
Replacements == {<<>>, <<"b">>}
Inputs == {<<>>, <<"a">>}

----------------------------------------------------------------------------
(* Program constants *)

\* main.rs:120  content.len() > 4 * original_len
GrowthFactor == 4
\* main.rs:120  content.len() > 1000
GrowthFloor == 1000

----------------------------------------------------------------------------
(* text_project.rs: OutputStatus and CancelMotive *)

ManuallyCancelled == "ManuallyCancelled"
CycleDetected == "CycleDetected"
HighGrowth == "HighGrowth"
CancelMotive == {ManuallyCancelled, CycleDetected, HighGrowth}

Outdated == [tag |-> "Outdated", motive |-> "-"]
InProgress == [tag |-> "InProgress", motive |-> "-"]
Done == [tag |-> "Done", motive |-> "-"]
Cancelled(m) == [tag |-> "Cancelled", motive |-> m]
OutputStatus == {Outdated, InProgress, Done} \cup {Cancelled(m) : m \in CancelMotive}

\* #[derive(Default)] TextProject with OutputStatus::default() = Done
TextProjectDefault == [input |-> <<>>, output |-> <<>>, output_status |-> Done]

----------------------------------------------------------------------------
(* step.rs: RegexInfo and Step *)

\* regex::Regex::new(search) as stored in RegexInfo.match: Ok(re) or Err(search)
RegexNew(search) ==
    IF \E i \in 1..Len(search) : search[i] = "("
    THEN [ok |-> FALSE, text |-> search]
    ELSE [ok |-> TRUE, text |-> search]

\* impl Default for RegexInfo: match = Err(""), replace = ""
RegexInfoDefault == [match |-> [ok |-> FALSE, text |-> <<>>], replace |-> <<>>]

\* #[derive(Default)] Step with StepProps::default(): enabled = true, no regexes
StepDefault == [enabled |-> TRUE, regexes |-> <<>>]

----------------------------------------------------------------------------
(* regex::Regex on literal patterns *)

\* Body applied to the value of x, which is computed once (a Rust let binding)
Let(x, Body(_)) == CHOOSE r \in {Body(v) : v \in {x}} : TRUE

OccursAt(p, s, i) ==
    /\ i + Len(p) - 1 <= Len(s)
    /\ \A k \in 1..Len(p) : s[i + k - 1] = p[k]

\* Regex::is_match
is_match(re, s) == IF Len(re) = 0 THEN TRUE ELSE \E i \in 1..Len(s) : OccursAt(re, s, i)

SetMin(S) == CHOOSE i \in S : \A j \in S : i <= j

\* two occurrences of the pattern can overlap (the pattern has a border)
SelfOverlaps(p) ==
    \E d \in 1..(Len(p) - 1) : \A k \in 1..(Len(p) - d) : p[k] = p[k + d]

\* leftmost, non-overlapping matches: the match starts at or after position from
RECURSIVE LeftmostFrom(_, _, _)
LeftmostFrom(p, s, from) ==
    IF \E i \in from..Len(s) : OccursAt(p, s, i)
    THEN LET first == SetMin({i \in from..Len(s) : OccursAt(p, s, i)})
         IN  {first} \cup LeftmostFrom(p, s, first + Len(p))
    ELSE {}

\* position i of s starts a match of Regex::find_iter
MatchStart(p, s, i) ==
    IF SelfOverlaps(p) THEN i \in LeftmostFrom(p, s, 1) ELSE OccursAt(p, s, i)

\* the concatenation f[lo] \o ... \o f[hi]
RECURSIVE ConcatRange(_, _, _)
ConcatRange(f, lo, hi) ==
    IF lo > hi THEN <<>>
    ELSE IF lo = hi THEN f[lo]
    ELSE ConcatRange(f, lo, (lo + hi) \div 2) \o ConcatRange(f, (lo + hi) \div 2 + 1, hi)

\* the concatenation of the sequences of the sequence f
Concat(f) == Let(f, LAMBDA v : ConcatRange(v, 1, Len(v)))

\* Regex::replace_all(&content, replacement).into_owned()
replace_all(re, s, replacement) ==
    Let(<<re, s, replacement>>, LAMBDA v :
        IF Len(v[1]) = 0
        THEN Concat([i \in 1..(Len(v[2]) + 1) |->
                        IF i <= Len(v[2]) THEN v[3] \o <<v[2][i]>> ELSE v[3]])
        ELSE Concat([i \in 1..Len(v[2]) |->
                        IF MatchStart(v[1], v[2], i) THEN v[3]
                        ELSE IF \E d \in 1..(Len(v[1]) - 1) :
                                    i > d /\ MatchStart(v[1], v[2], i - d)
                             THEN <<>>
                             ELSE <<v[2][i]>>]))

----------------------------------------------------------------------------
(* replace_text: the engine *)

\* faulty variant: a checksum on which all contents collide
Checksum_Constant(content) == <<>>

\* faulty variant: a checksum of the first character only
Checksum_FirstChar(content) == IF content = <<>> THEN <<>> ELSE <<Head(content)>>

\* crc32fast::Hasher over content.as_bytes(), taken as exact
Checksum(content) == content

\* HashMap<usize, Option<HashSet<u32>>>: a function from the lengths seen
None == [some |-> FALSE, set |-> {}]
Some(S) == [some |-> TRUE, set |-> S]
EmptyHashMaps == [l \in {} |-> None]

\* faulty variant: the cycle check never fires
CycleCheck_Never(hash_maps, content) == [cycle |-> FALSE, hash_maps |-> hash_maps]

\* the check that records the checksum of the content at every iteration
CycleCheck_AlwaysHash(hash_maps, content) ==
    Let(<<hash_maps, Len(content), Checksum(content)>>, LAMBDA v :
        LET maps == v[1]
            l == v[2]
            hash == v[3]
        IN  IF l \notin DOMAIN maps
            THEN [cycle |-> FALSE,
                  hash_maps |-> [k \in DOMAIN maps \cup {l} |->
                                    IF k = l THEN Some({hash}) ELSE maps[k]]]
            ELSE IF hash \in maps[l].set
                 THEN [cycle |-> TRUE, hash_maps |-> maps]
                 ELSE [cycle |-> FALSE,
                       hash_maps |-> [maps EXCEPT ![l] = Some(@.set \cup {hash})]])

\* faulty variant: a cycle is reported when a length is seen for the third time
CycleCheck_LengthTwice(hash_maps, content) ==
    IF Len(content) \notin DOMAIN hash_maps
    THEN [cycle |-> FALSE,
          hash_maps |-> [k \in DOMAIN hash_maps \cup {Len(content)} |->
                            IF k = Len(content) THEN None ELSE hash_maps[k]]]
    ELSE IF hash_maps[Len(content)].some
         THEN [cycle |-> TRUE, hash_maps |-> hash_maps]
         ELSE [cycle |-> FALSE,
               hash_maps |-> [hash_maps EXCEPT ![Len(content)] = Some({Checksum(content)})]]

\* faulty variant: a cycle is reported as soon as a content length repeats
CycleCheck_OnLength(hash_maps, content) ==
    IF Len(content) \in DOMAIN hash_maps
    THEN [cycle |-> TRUE, hash_maps |-> hash_maps]
    ELSE [cycle |-> FALSE,
          hash_maps |-> [k \in DOMAIN hash_maps \cup {Len(content)} |->
                            IF k = Len(content) THEN None ELSE hash_maps[k]]]

\* main.rs:88-114: [cycle, hash_maps after the check]
CycleCheck(hash_maps, content) ==
    Let(<<hash_maps, Len(content), Checksum(content)>>, LAMBDA v :
        LET maps == v[1]
            l == v[2]
            hash == v[3]
        IN  IF l \notin DOMAIN maps
            THEN [cycle |-> FALSE,
                  hash_maps |-> [k \in DOMAIN maps \cup {l} |->
                                    IF k = l THEN None ELSE maps[k]]]
            ELSE IF maps[l].some
                 THEN IF hash \in maps[l].set
                      THEN [cycle |-> TRUE, hash_maps |-> maps]
                      ELSE [cycle |-> FALSE,
                            hash_maps |-> [maps EXCEPT ![l] = Some(@.set \cup {hash})]]
                 ELSE [cycle |-> FALSE, hash_maps |-> [maps EXCEPT ![l] = Some({hash})]])

\* faulty variant: thresholds reached instead of exceeded
GrowthCheck_AtThreshold(len, original_len) ==
    len >= GrowthFactor * original_len /\ len >= GrowthFloor

\* main.rs:120
GrowthCheck(len, original_len) == len > GrowthFactor * original_len /\ len > GrowthFloor

\* faulty variant: the last matching rule of the step instead of the first
FirstMatch_Last(step_regexes, content) ==
    LET M == {j \in 1..Len(step_regexes) : is_match(step_regexes[j].re, content)}
    IN  IF M = {} THEN 0 ELSE CHOOSE j \in M : \A i \in M : i <= j

\* main.rs:126-138: index of the first rule of the step that matches, 0 if none
FirstMatch(step_regexes, content) ==
    IF \E j \in 1..Len(step_regexes) : is_match(step_regexes[j].re, content)
    THEN SetMin({j \in 1..Len(step_regexes) : is_match(step_regexes[j].re, content)})
    ELSE 0

\* main.rs:125-138: the content after the scan of the step's rules
ApplyOne(step_regexes, content) ==
    Let(FirstMatch(step_regexes, content), LAMBDA j :
        IF j = 0 THEN content
        ELSE replace_all(step_regexes[j].re, content, step_regexes[j].replacement))

\* the future's result: none yet, Ok(content) or Err((motive, content))
NoResult == [kind |-> "None", motive |-> "-"]
Ok == [kind |-> "Ok", motive |-> "-"]
Err(m) == [kind |-> "Err", motive |-> m]

\* main.rs:76-79 and 365-374: the state of the future created by send_future.
\* pc: "start" (not polled yet), "sleep" (suspended at line 124), "returned"
\* (its message is on its way to update()).  seen and applied are history.
\* History kept for the properties, never read by the program: source (the
\* Model.steps the pipeline was compiled from), seen (the contents at the loop
\* tops of the current step so far), applied (the rule applied by the last
\* scan, 0: none), late_cancel (the flag was set before the future returned),
\* refused (the messages update() refused while this run was in progress).
NewFuture(project_index, original, steps_regexes, source) ==
    [pc |-> "start", project_index |-> project_index,
     original_len |-> Len(original), content |-> original,
     steps_regexes |-> steps_regexes, step |-> 1,
     hash_maps |-> EmptyHashMaps,
     result |-> NoResult,
     source |-> source, seen |-> <<>>, applied |-> 0, late_cancel |-> FALSE,
     refused |-> {}]

Remember(seen, content) == IF Len(seen) < HistCap THEN Append(seen, content) ELSE seen

\* faulty variant: the cancellation flag is never read
LoopTop_NoCancelCheck(t, cancel) ==
    Let(<<t, CycleCheck(t.hash_maps, t.content)>>, LAMBDA v :
        LET cc == v[2]
            u == [v[1] EXCEPT !.hash_maps = cc.hash_maps,
                              !.seen = Remember(@, v[1].content)]
        IN  IF cc.cycle
            THEN [u EXCEPT !.pc = "returned", !.result = Err(CycleDetected)]
            ELSE IF GrowthCheck(Len(u.content), u.original_len)
            THEN [u EXCEPT !.pc = "returned", !.result = Err(HighGrowth)]
            ELSE [u EXCEPT !.pc = "sleep"])

\* faulty variant: the cancellation check before the cycle check
LoopTop_CancelFirst(t, cancel) ==
    Let(<<t, CycleCheck(t.hash_maps, t.content)>>, LAMBDA v :
        LET cc == v[2]
            u == [v[1] EXCEPT !.hash_maps = cc.hash_maps,
                              !.seen = Remember(@, v[1].content)]
        IN  IF cancel
            THEN [u EXCEPT !.pc = "returned", !.result = Err(ManuallyCancelled)]
            ELSE IF cc.cycle
            THEN [u EXCEPT !.pc = "returned", !.result = Err(CycleDetected)]
            ELSE IF GrowthCheck(Len(u.content), u.original_len)
            THEN [u EXCEPT !.pc = "returned", !.result = Err(HighGrowth)]
            ELSE [u EXCEPT !.pc = "sleep"])

\* faulty variant: the growth check before the cancellation check
LoopTop_GrowthFirst(t, cancel) ==
    Let(<<t, CycleCheck(t.hash_maps, t.content)>>, LAMBDA v :
        LET cc == v[2]
            u == [v[1] EXCEPT !.hash_maps = cc.hash_maps,
                              !.seen = Remember(@, v[1].content)]
        IN  IF cc.cycle
            THEN [u EXCEPT !.pc = "returned", !.result = Err(CycleDetected)]
            ELSE IF GrowthCheck(Len(u.content), u.original_len)
            THEN [u EXCEPT !.pc = "returned", !.result = Err(HighGrowth)]
            ELSE IF cancel
            THEN [u EXCEPT !.pc = "returned", !.result = Err(ManuallyCancelled)]
            ELSE [u EXCEPT !.pc = "sleep"])

\* main.rs:88-124: from the top of the loop to the sleep or a return
\* faulty variant: the growth check is skipped once no rule of the step matches
LoopTop_GrowthWhileMatching(t, cancel) ==
    Let(<<t, CycleCheck(t.hash_maps, t.content)>>, LAMBDA v :
        LET cc == v[2]
            u == [v[1] EXCEPT !.hash_maps = cc.hash_maps,
                              !.seen = Remember(@, v[1].content)]
        IN  IF cc.cycle
            THEN [u EXCEPT !.pc = "returned", !.result = Err(CycleDetected)]
            ELSE IF cancel
            THEN [u EXCEPT !.pc = "returned", !.result = Err(ManuallyCancelled)]
            ELSE IF /\ FirstMatch(u.steps_regexes[u.step], u.content) # 0
                    /\ GrowthCheck(Len(u.content), u.original_len)
            THEN [u EXCEPT !.pc = "returned", !.result = Err(HighGrowth)]
            ELSE [u EXCEPT !.pc = "sleep"])

LoopTop(t, cancel) ==
    Let(<<t, CycleCheck(t.hash_maps, t.content)>>, LAMBDA v :
        LET cc == v[2]
            u == [v[1] EXCEPT !.hash_maps = cc.hash_maps,
                              !.seen = Remember(@, v[1].content)]
        IN  IF cc.cycle
            THEN [u EXCEPT !.pc = "returned", !.result = Err(CycleDetected)]
            ELSE IF cancel
            THEN [u EXCEPT !.pc = "returned", !.result = Err(ManuallyCancelled)]
            ELSE IF GrowthCheck(Len(u.content), u.original_len)
            THEN [u EXCEPT !.pc = "returned", !.result = Err(HighGrowth)]
            ELSE [u EXCEPT !.pc = "sleep"])

\* faulty variant: the lengths and checksums of the earlier steps are kept
EnterStep_KeepsHashMaps(t, k, cancel) ==
    IF k > Len(t.steps_regexes)
    THEN [t EXCEPT !.pc = "returned", !.result = Ok]
    ELSE LoopTop([t EXCEPT !.step = k, !.seen = <<>>], cancel)

\* main.rs:80-83: enter step k, or main.rs:152 when the steps are exhausted
EnterStep(t, k, cancel) ==
    IF k > Len(t.steps_regexes)
    THEN [t EXCEPT !.pc = "returned", !.result = Ok]
    ELSE LoopTop([t EXCEPT !.step = k, !.hash_maps = EmptyHashMaps, !.seen = <<>>],
                 cancel)

\* faulty variant: the step is left when its first rule does not match
AfterSleep_FirstRuleOnly(t, cancel) ==
    LET rules == t.steps_regexes[t.step]
    IN  IF Len(rules) > 0 /\ is_match(rules[1].re, t.content)
        THEN LoopTop([t EXCEPT !.content = ApplyOne(rules, t.content), !.applied = 1],
                     cancel)
        ELSE EnterStep([t EXCEPT !.applied = 0], t.step + 1, cancel)

\* faulty variant: the step is left after its first substitution
AfterSleep_NoRestart(t, cancel) ==
    LET rules == t.steps_regexes[t.step]
        j == FirstMatch(rules, t.content)
    IN  EnterStep([t EXCEPT !.content = ApplyOne(rules, t.content), !.applied = j],
                  t.step + 1, cancel)

\* main.rs:125-152: from the wake-up after the sleep to the next sleep or a return
AfterSleep(t, cancel) ==
    LET rules == t.steps_regexes[t.step]
        j == FirstMatch(rules, t.content)
    IN  IF j # 0
        THEN LoopTop([t EXCEPT !.content = ApplyOne(rules, t.content),
                               !.applied = j],
                     cancel)
        ELSE EnterStep([t EXCEPT !.applied = 0], t.step + 1, cancel)

\* one poll of the future
Poll(t, cancel) ==
    IF t.pc = "start" THEN EnterStep(t, 1, cancel) ELSE AfterSleep(t, cancel)

\* replace_text polled to its return with the flag never set: [result, content]
RECURSIVE RunFuture(_)
RunFuture(t) ==
    Let(t, LAMBDA v : IF v.pc = "returned" THEN v ELSE RunFuture(Poll(v, FALSE)))

replace_text(original, steps_regexes) ==
    LET t == RunFuture(NewFuture(1, original, steps_regexes, <<>>))
    IN  [result |-> t.result, content |-> t.content]

----------------------------------------------------------------------------
(* Model::create *)

Init ==
    /\ text_projects = <<TextProjectDefault>>
    /\ active_text_project = 1
    /\ replacement_in_progress = FALSE
    /\ replacement_cancel_signal = FALSE
    /\ steps = <<StepDefault>>
    /\ futures = <<>>
    /\ handled = 0

----------------------------------------------------------------------------
(* Model::update, one action per message *)

Regex(i, j) == steps[i].regexes[j]

AddStep ==
    /\ Len(steps) < MaxSteps
    /\ steps' = Append(steps, StepDefault)
    /\ UNCHANGED <<text_projects, active_text_project, replacement_in_progress,
                   replacement_cancel_signal, futures>>

SetStepEnabled(index, value) ==
    /\ steps' = [steps EXCEPT ![index].enabled = value]
    /\ UNCHANGED <<text_projects, active_text_project, replacement_in_progress,
                   replacement_cancel_signal, futures>>

AddRegex(step_index) ==
    /\ Len(steps[step_index].regexes) < MaxRules
    /\ steps' = [steps EXCEPT ![step_index].regexes = Append(@, RegexInfoDefault)]
    /\ UNCHANGED <<text_projects, active_text_project, replacement_in_progress,
                   replacement_cancel_signal, futures>>

UpdateRegexSearch(step_index, regex_index, search) ==
    /\ steps' = [steps EXCEPT ![step_index].regexes[regex_index].match = RegexNew(search)]
    /\ UNCHANGED <<text_projects, active_text_project, replacement_in_progress,
                   replacement_cancel_signal, futures>>

UpdateRegexReplacement(step_index, regex_index, replacement) ==
    /\ steps' = [steps EXCEPT ![step_index].regexes[regex_index].replace = replacement]
    /\ UNCHANGED <<text_projects, active_text_project, replacement_in_progress,
                   replacement_cancel_signal, futures>>

\* Vec::remove
Remove(s, k) == [i \in 1..(Len(s) - 1) |-> IF i < k THEN s[i] ELSE s[i + 1]]

DeleteRegex(step_index, regex_index, confirmed) ==
    /\ steps' = IF confirmed
                THEN [steps EXCEPT ![step_index].regexes = Remove(@, regex_index)]
                ELSE steps
    /\ UNCHANGED <<text_projects, active_text_project, replacement_in_progress,
                   replacement_cancel_signal, futures>>

\* slice::swap
Swap(s, a, b) == [s EXCEPT ![a] = s[b], ![b] = s[a]]

MoveRegex(step_index, regex_index, direction) ==
    /\ steps' =
          IF direction = "Up"
          THEN IF regex_index >= 2
               THEN [steps EXCEPT ![step_index].regexes = Swap(@, regex_index - 1, regex_index)]
               ELSE steps
          ELSE IF regex_index + 1 <= Len(steps[step_index].regexes)
               THEN [steps EXCEPT ![step_index].regexes = Swap(@, regex_index, regex_index + 1)]
               ELSE steps
    /\ UNCHANGED <<text_projects, active_text_project, replacement_in_progress,
                   replacement_cancel_signal, futures>>

\* history only: the futures in flight, with msg noted as refused
Refuse(msg) == [k \in 1..Len(futures) |-> [futures[k] EXCEPT !.refused = @ \cup {msg}]]

\* faulty variant: the input is edited whether or not a run is in progress
InputUpdated_NoGuard(project_index, value) ==
    /\ text_projects' = [text_projects EXCEPT ![project_index].input = value,
                                              ![project_index].output_status = Outdated]
    /\ futures' = IF replacement_in_progress THEN Refuse("InputUpdated") ELSE futures
    /\ UNCHANGED <<active_text_project, replacement_in_progress,
                   replacement_cancel_signal, steps>>

\* faulty variant: the status is left as it is
InputUpdated_KeepsStatus(project_index, value) ==
    /\ text_projects' =
          IF replacement_in_progress
          THEN text_projects
          ELSE [text_projects EXCEPT ![project_index].input = value]
    /\ futures' = IF replacement_in_progress THEN Refuse("InputUpdated") ELSE futures
    /\ UNCHANGED <<active_text_project, replacement_in_progress,
                   replacement_cancel_signal, steps>>

InputUpdated(project_index, value) ==
    /\ text_projects' =
          IF replacement_in_progress
          THEN text_projects
          ELSE [text_projects EXCEPT ![project_index].input = value,
                                     ![project_index].output_status = Outdated]
    /\ futures' = IF replacement_in_progress THEN Refuse("InputUpdated") ELSE futures
    /\ UNCHANGED <<active_text_project, replacement_in_progress,
                   replacement_cancel_signal, steps>>

\* faulty variant: the value of the message is stored as the output
OutputUpdated_Writes(project_index, discarded_value) ==
    /\ text_projects' = [text_projects EXCEPT ![project_index].output = discarded_value]
    /\ UNCHANGED <<active_text_project, replacement_in_progress,
                   replacement_cancel_signal, steps, futures>>

OutputUpdated(project_index, discarded_value) ==
    UNCHANGED <<text_projects, active_text_project, replacement_in_progress,
                   replacement_cancel_signal, steps, futures>>

AddTextProject ==
    /\ Len(text_projects) < MaxProjects
    /\ text_projects' = Append(text_projects, TextProjectDefault)
    /\ active_text_project' = Len(text_projects) + 1
    /\ UNCHANGED <<replacement_in_progress, replacement_cancel_signal, steps, futures>>

SelectTextProject(index) ==
    /\ active_text_project' = index
    /\ UNCHANGED <<text_projects, replacement_in_progress, replacement_cancel_signal,
                   steps, futures>>

\* main.rs:340-358: the rules of step i that compile, in order (empty Err text skipped)
CompileStep(step) ==
    LET kept == SelectSeq(step.regexes, LAMBDA r : r.match.ok)
    IN  [j \in 1..Len(kept) |-> [re |-> kept[j].match.text, replacement |-> kept[j].replace]]

\* main.rs:349-352: some rule holds Err(s) with s not empty
HasParseError(ss) ==
    \E i \in 1..Len(ss) : \E j \in 1..Len(ss[i].regexes) :
        /\ ~ss[i].regexes[j].match.ok
        /\ Len(ss[i].regexes[j].match.text) > 0

\* main.rs:338-358: the Vec<Vec<(Regex, String)>> handed to replace_text
Compile(ss) == [i \in 1..Len(ss) |-> CompileStep(ss[i])]

\* faulty variant: a run is started whether or not one is in progress
StartReplacingText_NoGuard(project_index) ==
    /\ replacement_in_progress' = TRUE
    /\ text_projects' = [text_projects EXCEPT ![project_index].output_status = InProgress]
    /\ IF HasParseError(steps)
       THEN UNCHANGED <<replacement_cancel_signal, futures>>
       ELSE /\ replacement_cancel_signal' = FALSE
            /\ futures' = Append(Refuse("StartReplacingText"),
                   NewFuture(project_index, text_projects[project_index].input,
                             Compile(steps), steps))
    /\ UNCHANGED <<active_text_project, steps>>

StartReplacingText(project_index) ==
    IF replacement_in_progress
    THEN /\ futures' = Refuse("StartReplacingText")
         /\ UNCHANGED <<text_projects, active_text_project, replacement_in_progress,
                        replacement_cancel_signal, steps>>
    ELSE /\ replacement_in_progress' = TRUE
         /\ text_projects' = [text_projects EXCEPT ![project_index].output_status = InProgress]
         /\ IF HasParseError(steps)
            THEN UNCHANGED <<replacement_cancel_signal, futures>>
            ELSE /\ replacement_cancel_signal' = FALSE
                 /\ futures' = Append(futures,
                        NewFuture(project_index, text_projects[project_index].input,
                                  Compile(steps), steps))
         /\ UNCHANGED <<active_text_project, steps>>

\* StartReplacingText(None)
StartReplacingTextNone ==
    UNCHANGED <<text_projects, active_text_project, replacement_in_progress,
                   replacement_cancel_signal, steps, futures>>

CancelReplacingText ==
    /\ replacement_cancel_signal' =
          IF replacement_in_progress THEN TRUE ELSE replacement_cancel_signal
    /\ futures' = IF replacement_in_progress
                  THEN [k \in 1..Len(futures) |->
                          IF futures[k].pc \in {"start", "sleep"}
                          THEN [futures[k] EXCEPT !.late_cancel = TRUE]
                          ELSE futures[k]]
                  ELSE futures
    /\ UNCHANGED <<text_projects, active_text_project, replacement_in_progress, steps>>

\* faulty variant: the cancellation flag is left as it is
FinishReplacingText_KeepsFlag(project_index, content) ==
    /\ replacement_in_progress' = FALSE
    /\ text_projects' = [text_projects EXCEPT ![project_index].output = content,
                                              ![project_index].output_status = Done]
    /\ UNCHANGED <<replacement_cancel_signal, active_text_project, steps>>

FinishReplacingText(project_index, content) ==
    /\ replacement_in_progress' = FALSE
    /\ text_projects' = [text_projects EXCEPT ![project_index].output = content,
                                              ![project_index].output_status = Done]
    /\ replacement_cancel_signal' = FALSE
    /\ UNCHANGED <<active_text_project, steps>>

\* faulty variant: a cancelled run is recorded as Done
CancelledReplacingText_AsDone(project_index, cancel_motive, latest_content) ==
    /\ replacement_in_progress' = FALSE
    /\ text_projects' = [text_projects EXCEPT ![project_index].output = latest_content,
                                              ![project_index].output_status = Done]
    /\ replacement_cancel_signal' = FALSE
    /\ UNCHANGED <<active_text_project, steps>>

\* faulty variant: replacement_in_progress is left as it is
CancelledReplacingText_KeepsInProgress(project_index, cancel_motive, latest_content) ==
    /\ text_projects' = [text_projects EXCEPT ![project_index].output = latest_content,
                                              ![project_index].output_status = Cancelled(cancel_motive)]
    /\ replacement_cancel_signal' = FALSE
    /\ UNCHANGED <<replacement_in_progress, active_text_project, steps>>

CancelledReplacingText(project_index, cancel_motive, latest_content) ==
    /\ replacement_in_progress' = FALSE
    /\ text_projects' = [text_projects EXCEPT ![project_index].output = latest_content,
                                              ![project_index].output_status = Cancelled(cancel_motive)]
    /\ replacement_cancel_signal' = FALSE
    /\ UNCHANGED <<active_text_project, steps>>

----------------------------------------------------------------------------
(* the futures: polled by the executor, their message delivered when they return *)

\* faulty variant: the engine reads the rules of Model.steps at every poll
PollFuture_LiveSteps(k) ==
    /\ futures[k].pc \in {"start", "sleep"}
    /\ futures' = [futures EXCEPT ![k] =
                      Poll([futures[k] EXCEPT !.steps_regexes = Compile(steps)],
                           replacement_cancel_signal)]
    /\ UNCHANGED <<text_projects, active_text_project, replacement_in_progress,
                   replacement_cancel_signal, steps>>

PollFuture(k) ==
    /\ futures[k].pc \in {"start", "sleep"}
    /\ futures' = [futures EXCEPT ![k] = Poll(futures[k], replacement_cancel_signal)]
    /\ UNCHANGED <<text_projects, active_text_project, replacement_in_progress,
                   replacement_cancel_signal, steps>>

\* faulty variant: the message names the project that is active when it is sent
DeliverMessage_ToActive(k) ==
    /\ futures[k].pc = "returned"
    /\ futures' = Remove(futures, k)
    /\ IF futures[k].result = Ok
       THEN FinishReplacingText(active_text_project, futures[k].content)
       ELSE CancelledReplacingText(active_text_project, futures[k].result.motive,
                                   futures[k].content)

\* main.rs:365-374: the message the returned future sends to update()
DeliverMessage(k) ==
    /\ futures[k].pc = "returned"
    /\ futures' = Remove(futures, k)
    /\ IF futures[k].result = Ok
       THEN FinishReplacingText(futures[k].project_index, futures[k].content)
       ELSE CancelledReplacingText(futures[k].project_index, futures[k].result.motive,
                                   futures[k].content)

\* a message of the user interface reaches update()
User ==
    /\ handled < MaxUser
    /\ handled' = handled + 1

Next ==
    \/ User /\ AddStep
    \/ \E i \in 1..Len(steps) : \E v \in BOOLEAN : User /\ SetStepEnabled(i, v)
    \/ \E i \in 1..Len(steps) : User /\ AddRegex(i)
    \/ \E i \in 1..Len(steps) : \E j \in 1..Len(steps[i].regexes) : \E s \in Searches :
          User /\ UpdateRegexSearch(i, j, s)
    \/ \E i \in 1..Len(steps) : \E j \in 1..Len(steps[i].regexes) : \E r \in Replacements :
          User /\ UpdateRegexReplacement(i, j, r)
    \/ \E i \in 1..Len(steps) : \E j \in 1..Len(steps[i].regexes) : \E c \in BOOLEAN :
          User /\ DeleteRegex(i, j, c)
    \/ \E i \in 1..Len(steps) : \E j \in 1..Len(steps[i].regexes) : \E d \in {"Up", "Down"} :
          User /\ MoveRegex(i, j, d)
    \/ User /\ AddTextProject
    \/ \E p \in 1..Len(text_projects) : User /\ SelectTextProject(p)
    \/ \E p \in 1..Len(text_projects) : \E v \in Inputs : User /\ InputUpdated(p, v)
    \/ \E p \in 1..Len(text_projects) : \E v \in Inputs : User /\ OutputUpdated(p, v)
    \/ \E p \in 1..Len(text_projects) : User /\ StartReplacingText(p)
    \/ User /\ StartReplacingTextNone
    \/ User /\ CancelReplacingText
    \/ \E k \in 1..Len(futures) : PollFuture(k) /\ UNCHANGED handled
    \/ \E k \in 1..Len(futures) : DeliverMessage(k) /\ UNCHANGED handled

Spec == Init /\ [][Next]_vars

----------------------------------------------------------------------------
(* The engine alone: a run that has just been started on any pipeline and input *)

MaxPipelineRules == 2

a == "a"
b == "b"
Rule(re, replacement) == [re |-> re, replacement |-> replacement]
Cat == <<"c", "a", "t">>
Dog == <<"d", "o", "g">>
ACatSat == <<"a", " ", "c", "a", "t", " ", "s", "a", "t">>
ADogSat == <<"a", " ", "d", "o", "g", " ", "s", "a", "t">>
EngineRules ==
    { Rule(<<a>>, <<b>>), Rule(<<b>>, <<a>>), Rule(<<a>>, <<>>), Rule(<<a>>, <<a, a>>),
      Rule(<<>>, <<>>), Rule(<<a, b>>, <<b, a>>), Rule(Cat, Dog) }

Repeat(c, n) == [i \in 1..n |-> c]
EngineInputs ==
    { <<>>, <<a>>, <<b, a>>, <<a, a, b, b>>, ACatSat,
      Repeat(a, 10), Repeat(a, 1200), Repeat(a, 2000) }

\* the sequences of up to m rules
RuleSeqs(m) == UNION {[1..k -> EngineRules] : k \in 0..m}

\* the pipelines of n steps holding up to m rules in all
RECURSIVE PipelinesOf(_, _)
PipelinesOf(n, m) ==
    IF n = 0 THEN {<<>>}
    ELSE UNION {{<<s>> \o p : p \in PipelinesOf(n - 1, m - Len(s))} : s \in RuleSeqs(m)}

EnginePipelines == UNION {PipelinesOf(n, MaxPipelineRules) : n \in 1..MaxSteps}

\* the Model.steps whose rules are those of the pipeline p, all enabled
StepsOf(p) ==
    [i \in 1..Len(p) |->
        [enabled |-> TRUE,
         regexes |-> [j \in 1..Len(p[i]) |->
                        [match |-> RegexNew(p[i][j].re), replace |-> p[i][j].replacement]]]]

InitEngine ==
    \E input \in EngineInputs : \E p \in EnginePipelines :
        /\ steps = StepsOf(p)
        /\ text_projects = <<[input |-> input, output |-> <<>>, output_status |-> InProgress]>>
        /\ active_text_project = 1
        /\ replacement_in_progress = TRUE
        /\ replacement_cancel_signal = FALSE
        /\ futures = <<NewFuture(1, input, Compile(steps), steps)>>
        /\ handled = 0

EnginePoll == \E k \in 1..Len(futures) : PollFuture(k) /\ UNCHANGED handled
EngineDeliver == \E k \in 1..Len(futures) : DeliverMessage(k) /\ UNCHANGED handled
EngineCancel == CancelReplacingText /\ UNCHANGED handled

NextEngine == EnginePoll \/ EngineDeliver \/ EngineCancel

SpecEngine == InitEngine /\ [][NextEngine]_vars

\* a future that has not returned is at an await whose timer fires: polling it
\* always moves it, so this is ENABLED <<EnginePoll>>_vars
PollEnabled == \E k \in 1..Len(futures) : futures[k].pc # "returned"

\* polling a future that has not returned changes it
PollAlwaysMoves ==
    \A k \in 1..Len(futures) :
        futures[k].pc # "returned" =>
            /\ Poll(futures[k], TRUE) # futures[k]
            /\ Poll(futures[k], FALSE) # futures[k]

\* WF_vars(EnginePoll) with its enabling condition written out as PollEnabled
FairPoll == []<>(~PollEnabled) \/ []<><<EnginePoll>>_vars

\* the executor polls a woken future and update() handles a sent message
FairSpecEngine == SpecEngine /\ FairPoll /\ WF_vars(EngineDeliver)

----------------------------------------------------------------------------
(* Properties of the run controller *)

Projects == 1..Len(text_projects)
Futures == 1..Len(futures)
Status(p) == text_projects[p].output_status
EnabledSteps(ss) == SelectSeq(ss, LAMBDA st : st.enabled)
AllPatternsEmpty(ss) ==
    \A i \in 1..Len(ss) : \A j \in 1..Len(ss[i].regexes) : Len(ss[i].regexes[j].match.text) = 0

\* C1: a project that is InProgress always leaves it: while a project is InProgress
\* (and replacement_in_progress is set) a future of that run is in flight, whose
\* terminal message is the only thing that ends InProgress and clears the flag.
C1_InProgressNeverStuck ==
    /\ \A p \in Projects :
          Status(p) = InProgress => \E k \in Futures : futures[k].project_index = p
    /\ replacement_in_progress => Len(futures) > 0

\* C2: in a state where StartReplacingText finds a rule in the compile-error state
\* (no run in progress, some non-empty pattern text that did not compile), no
\* message sets replacement_in_progress, marks a project InProgress, touches the
\* cancellation flag or spawns a future.
C2_AbortedStartTouchesNothing ==
    [][ (~replacement_in_progress /\ HasParseError(steps)) =>
          /\ replacement_in_progress' = replacement_in_progress
          /\ replacement_cancel_signal' = replacement_cancel_signal
          /\ futures' = futures
          /\ \A p \in Projects :
                text_projects'[p].output_status = InProgress => Status(p) = InProgress
      ]_vars

\* C4: no rule of a step that was disabled at run start is applied, and a run that
\* was not cancelled by hand returns what the pipeline of the enabled steps returns.
C4_DisabledStepsNotRun ==
    \A k \in Futures :
        LET t == futures[k]
        IN  /\ t.applied # 0 => t.source[t.step].enabled
            /\ (t.pc = "returned" /\ t.result # Err(ManuallyCancelled)) =>
                  [result |-> t.result, content |-> t.content]
                    = replace_text(text_projects[t.project_index].input,
                                   Compile(EnabledSteps(t.source)))

\* C5: a StartReplacingText that is not rejected for a run in progress (it sets
\* replacement_in_progress) spawns no engine exactly when a rule of an enabled step
\* holds non-empty pattern text that did not compile.
C5_RejectedIffEnabledRuleUnparseable ==
    [][ (~replacement_in_progress /\ replacement_in_progress') =>
          ((Len(futures') = Len(futures)) <=> HasParseError(EnabledSteps(steps)))
      ]_vars

\* C6: a run whose rules all have empty pattern text (fresh from AddRegex, or set to
\* the empty string by UpdateRegexSearch) applies no rule, keeps the content equal
\* to the input and, unless cancelled by hand, returns Ok.
C6_EmptyPatternIsInert ==
    \A k \in Futures :
        LET t == futures[k]
        IN  AllPatternsEmpty(t.source) =>
              /\ t.applied = 0
              /\ t.content = text_projects[t.project_index].input
              /\ (t.pc = "returned" /\ t.result # Err(ManuallyCancelled)) => t.result = Ok

----------------------------------------------------------------------------
(* Properties of the engine *)

Motives == {Err(m) : m \in CancelMotive}
Returned(t) == t.pc = "returned"
Original(t) == text_projects[t.project_index].input
LastStep(t) == t.step = Len(t.steps_regexes)
Matching(rules, content) == {j \in 1..Len(rules) : is_match(rules[j].re, content)}
Count(seen, c) == Cardinality({i \in 1..Len(seen) : seen[i] = c})
Repeated(seen) == \E i \in 1..Len(seen) : Count(seen, seen[i]) > 1
\* the step from futures[k] to futures'[k] is a poll of that future
Polled(k) ==
    /\ k <= Len(futures')
    /\ futures[k].pc \in {"start", "sleep"}
    /\ futures'[k] # futures[k]
    /\ futures'[k].late_cancel = futures[k].late_cancel

\* C3: replace_text eventually returns, whatever the pipeline, the input and the
\* moments at which the flag is set, and it returns Ok or Err with one motive.
C3_ReplaceTextReturns ==
    /\ <>(\A k \in Futures : Returned(futures[k]))
    /\ [](\A k \in Futures :
            /\ Returned(futures[k]) => futures[k].result \in {Ok} \cup Motives
            /\ ~Returned(futures[k]) => futures[k].result = NoResult)

C3_Witness ==
    \E k \in Futures :
        /\ Returned(futures[k])
        /\ futures[k].result = Err(CycleDetected)
        /\ futures[k].steps_regexes = <<<<Rule(<<a>>, <<a, a>>)>>, <<Rule(<<>>, <<>>)>>>>

\* C7 as claimed: a run during which the flag was set ends ManuallyCancelled.
C7_CancelEndsManuallyCancelled ==
    \A k \in Futures :
        (Returned(futures[k]) /\ futures[k].late_cancel)
            => futures[k].result = Err(ManuallyCancelled)

\* C7 as amended: the poll that follows the setting of the flag returns. It applies
\* the substitution of the iteration the engine was suspended in and nothing more;
\* it returns Ok when that scan matched no rule in the last step, CycleDetected when
\* the cycle check of the next iteration fires on a content seen before, and
\* ManuallyCancelled with the content of the last completed iteration otherwise.
C7_CancelObservedAtNextCheck ==
    [][ \A k \in Futures :
          (Polled(k) /\ replacement_cancel_signal) =>
            LET t == futures[k]
                u == futures'[k]
            IN  /\ Returned(u)
                /\ t.pc = "start" => (u.result = Err(ManuallyCancelled) /\ u.content = Original(t))
                /\ t.pc = "sleep" =>
                     LET rules == t.steps_regexes[t.step]
                         matched == Matching(rules, t.content) # {}
                     IN  /\ u.content = ApplyOne(rules, t.content)
                         /\ (~matched /\ LastStep(t)) => u.result = Ok
                         /\ (matched \/ ~LastStep(t)) =>
                               u.result \in {Err(ManuallyCancelled), Err(CycleDetected)}
                         /\ u.result = Err(CycleDetected) =>
                               (matched /\ Count(t.seen, u.content) > 0)
      ]_vars

C7_Witness ==
    \E k \in Futures :
        /\ Returned(futures[k])
        /\ futures[k].late_cancel
        /\ futures[k].result = Err(ManuallyCancelled)
        /\ futures[k].applied # 0
        /\ futures[k].content # Original(futures[k])
        /\ Matching(futures[k].steps_regexes[futures[k].step], futures[k].content) # {}

\* C8: without cancellation, once a step has come back to a content it already held
\* at the top of its loop, the run can only end with CycleDetected, and it does so
\* when some content is observed for the third time at the latest: a suspended
\* engine has seen no content more than twice. For the rules a -> b, b -> a the
\* fourth iteration detects the cycle, two iterations after the first length repeat.
C8_CycleIsDetected ==
    \A k \in Futures :
        LET t == futures[k]
        IN  (~replacement_cancel_signal /\ ~t.late_cancel) =>
              /\ Len(t.seen) < HistCap
              /\ (Returned(t) /\ Repeated(t.seen)) => t.result = Err(CycleDetected)
              /\ \A i \in 1..Len(t.seen) :
                    Count(t.seen, t.seen[i]) <= (IF Returned(t) THEN 3 ELSE 2)
              /\ (Returned(t) /\ t.steps_regexes = <<<<Rule(<<a>>, <<b>>), Rule(<<b>>, <<a>>)>>>>
                     /\ Original(t) # <<>>)
                    => (t.result = Err(CycleDetected) /\ Len(t.seen) = 4)

C8_Witness ==
    \E k \in Futures :
        /\ Returned(futures[k])
        /\ ~replacement_cancel_signal
        /\ futures[k].steps_regexes = <<<<Rule(<<a>>, <<b>>), Rule(<<b>>, <<a>>)>>>>
        /\ futures[k].result = Err(CycleDetected)
        /\ futures[k].seen = <<<<a>>, <<b>>, <<a>>, <<b>>>>

\* C9: a run ends with HighGrowth only on a content longer than 4 times the original
\* input and longer than 1000, and the engine never goes past its checks (to the
\* sleep) with such a content. With the doubling rule a run on 2000 characters ends
\* HighGrowth at 16000 after passing 8000, a run on 1200 ends at 9600 after passing
\* 4800, and no content of at most 1000 characters is aborted for growth.
C9_GrowthGuard ==
    \A k \in Futures :
        LET t == futures[k]
            len == Len(t.content)
            orig == Len(Original(t))
            doubling == t.steps_regexes = <<<<Rule(<<a>>, <<a, a>>)>>>>
        IN  /\ (Returned(t) /\ t.result = Err(HighGrowth)) => (len > 4 * orig /\ len > 1000)
            /\ t.pc = "sleep" => ~(len > 4 * orig /\ len > 1000)
            /\ (Returned(t) /\ doubling /\ ~t.late_cancel /\ orig \in {1200, 2000}) =>
                  /\ t.result = Err(HighGrowth)
                  /\ len = 8 * orig
                  /\ \E i \in 1..Len(t.seen) : Len(t.seen[i]) = 4 * orig

C9_Witness ==
    \E k \in Futures :
        /\ Returned(futures[k])
        /\ futures[k].result = Err(HighGrowth)
        /\ Len(Original(futures[k])) = 2000
        /\ Len(futures[k].content) = 16000
        /\ \E i \in 1..Len(futures[k].seen) : Len(futures[k].seen[i]) = 8000

\* a run of the one-step pipeline [("cat", "dog")] on "a cat sat"
CatRun ==
    /\ steps = StepsOf(<<<<Rule(Cat, Dog)>>>>)
    /\ text_projects[1].input = ACatSat

\* C10: the scan of an iteration applies the lowest-index rule that matches the
\* content, to all its occurrences, and no other rule; it changes nothing when no
\* rule matches.
C10_OneRulePerIteration ==
    [][ \A k \in Futures :
          (Polled(k) /\ futures[k].pc = "sleep") =>
            LET t == futures[k]
                u == futures'[k]
                rules == t.steps_regexes[t.step]
                M == Matching(rules, t.content)
            IN  IF M = {}
                THEN u.applied = 0 /\ u.content = t.content
                ELSE \E j \in M :
                        /\ \A i \in M : j <= i
                        /\ u.applied = j
                        /\ u.content = replace_all(rules[j].re, t.content, rules[j].replacement)
      ]_vars

\* a lower-priority rule has fired (the first did not match) and the first rule
\* matches the content it produced
C10_Witness ==
    \E k \in Futures :
        /\ futures[k].applied = 2
        /\ 1 \in Matching(futures[k].steps_regexes[futures[k].step], futures[k].content)

\* no replacement template of a step contains a match of a rule of that step
NoReintroduce(steps_regexes) ==
    \A i \in 1..Len(steps_regexes) :
        \A j, j2 \in 1..Len(steps_regexes[i]) :
            ~is_match(steps_regexes[i][j2].re, steps_regexes[i][j].replacement)

NoRuleMatches(steps_regexes, content) ==
    \A i \in 1..Len(steps_regexes) : Matching(steps_regexes[i], content) = {}

Rerun(t) == replace_text(t.content, t.steps_regexes)

\* C11 as claimed: when no replacement re-introduces a match in its own step, a
\* run of the pipeline on the Ok output of a run returns Ok with the same content.
C11_IdempotentFixpoint ==
    \A k \in Futures :
        LET t == futures[k]
        IN  (Returned(t) /\ t.result = Ok /\ NoReintroduce(t.steps_regexes))
                => Rerun(t) = [result |-> Ok, content |-> t.content]

\* C11 as amended: the Ok output of a run matches no rule of the last step; a run
\* of the pipeline on it returns Ok with the same content whenever no rule of any
\* step matches it, which is always so for a pipeline of one step.
C11_FixpointOfLastStep ==
    \A k \in Futures :
        LET t == futures[k]
            n == Len(t.steps_regexes)
        IN  (Returned(t) /\ t.result = Ok) =>
              /\ Matching(t.steps_regexes[n], t.content) = {}
              /\ NoRuleMatches(t.steps_regexes, t.content)
                    => Rerun(t) = [result |-> Ok, content |-> t.content]
              /\ n = 1 => NoRuleMatches(t.steps_regexes, t.content)

C11_Witness ==
    \E k \in Futures :
        LET t == futures[k]
        IN  /\ Returned(t) /\ t.result = Ok
            /\ Len(t.steps_regexes) = 2
            /\ \A i \in 1..2 : Len(t.steps_regexes[i]) = 1
            /\ NoRuleMatches(t.steps_regexes, t.content)
            /\ t.content # Original(t)
            /\ t.content # <<>>

\* C12: the run of [("cat", "dog")] on "a cat sat", when not cancelled by hand,
\* returns Ok("a dog sat") after two iterations (the second has the length of the
\* first and is not taken for a cycle), and once its message is handled the
\* project is Done with output "a dog sat".
C12_CatBecomesDog ==
    CatRun =>
        /\ \A k \in Futures :
              LET t == futures[k]
              IN  /\ t.result \notin {Err(CycleDetected), Err(HighGrowth)}
                  /\ (Returned(t) /\ ~t.late_cancel) =>
                        /\ t.result = Ok
                        /\ t.content = ADogSat
                        /\ t.seen = <<ACatSat, ADogSat>>
        /\ futures = <<>> =>
              \/ Status(1) = Done /\ text_projects[1].output = ADogSat
              \/ Status(1) = Cancelled(ManuallyCancelled)

C12_Witness ==
    /\ CatRun
    /\ futures = <<>>
    /\ Status(1) = Done
    /\ text_projects[1].output = ADogSat
    /\ ~replacement_in_progress

----------------------------------------------------------------------------
(* Properties of the run controller: guards and terminal messages *)

\* the projects, the flags and the futures (their history of refusals apart)
Controller == <<text_projects, replacement_in_progress, replacement_cancel_signal>>
Forget(fs) == [k \in 1..Len(fs) |-> [fs[k] EXCEPT !.refused = {}]]
InProgressProjects == {p \in Projects : Status(p) = InProgress}
Outcome(t) == [result |-> t.result, content |-> t.content]
Terminal == {Done} \cup {Cancelled(m) : m \in CancelMotive}

\* C13: a StartReplacingText handled while replacement_in_progress is set changes
\* no project, neither flag and no future and spawns none; in every state at most
\* one project is InProgress and at most one future is in flight.
C13_StartRefusedDuringRun ==
    /\ [](Cardinality(InProgressProjects) <= 1 /\ Len(futures) <= 1)
    /\ [][ \A q \in Projects :
              (replacement_in_progress /\ StartReplacingText(q)) =>
                  /\ Controller' = Controller
                  /\ Forget(futures') = Forget(futures)
          ]_vars

C13_Witness ==
    \E k \in Futures :
        /\ "StartReplacingText" \in futures[k].refused
        /\ futures[k].pc = "sleep"
        /\ Len(text_projects) = 2
        /\ futures[k].project_index = 1
        /\ Status(2) # InProgress

\* C14: a StartReplacingText(q) handled while a run is in progress on another
\* project, q itself having no run, is accepted: q becomes InProgress and a
\* second future is spawned.
C14_OtherProjectStartAccepted ==
    [][ \A q \in Projects :
          ( /\ StartReplacingText(q)
            /\ Status(q) # InProgress
            /\ \E k \in Futures : futures[k].project_index # q
            /\ \A k \in Futures : futures[k].project_index # q
            /\ ~HasParseError(steps) )
          => /\ Len(futures') = Len(futures) + 1
             /\ text_projects'[q].output_status = InProgress
      ]_vars

\* C15: an InputUpdated handled while replacement_in_progress is set changes no
\* project; the future in flight started on the project's input and, unless
\* cancelled by hand, returns what replace_text returns on that input.
C15_InputEditRefusedDuringRun ==
    /\ [][ \A p \in Projects : \A v \in Inputs :
              (replacement_in_progress /\ InputUpdated(p, v)) =>
                  /\ Controller' = Controller
                  /\ Forget(futures') = Forget(futures)
          ]_vars
    /\ [](\A k \in Futures :
            LET t == futures[k]
            IN  /\ t.original_len = Len(Original(t))
                /\ t.pc = "start" => t.content = Original(t)
                /\ (Returned(t) /\ ~t.late_cancel) =>
                      Outcome(t) = replace_text(Original(t), t.steps_regexes))

C15_Witness ==
    \E k \in Futures :
        /\ "InputUpdated" \in futures[k].refused
        /\ Returned(futures[k])
        /\ futures[k].result = Ok
        /\ futures[k].content # Original(futures[k])

\* C16: the rules a future applies are those compiled from Model.steps when it was
\* spawned, whatever edits were handled since: unless cancelled by hand it returns
\* what replace_text returns on the pipeline compiled at run start; a future is
\* spawned with the pipeline compiled from the steps of that moment.
C16_PipelineFixedAtStart ==
    /\ [](\A k \in Futures :
            LET t == futures[k]
            IN  /\ t.steps_regexes = Compile(t.source)
                /\ (Returned(t) /\ ~t.late_cancel) =>
                      Outcome(t) = replace_text(Original(t), Compile(t.source)))
    /\ [][ \A k \in Futures : k <= Len(futures') /\ Len(futures') >= Len(futures)
                => futures'[k].steps_regexes = futures[k].steps_regexes ]_vars
    /\ [][ Len(futures') > Len(futures)
                => futures'[Len(futures')].steps_regexes = Compile(steps) ]_vars

\* the steps were edited during the run and the edit would have changed its result
C16_Witness ==
    \E k \in Futures :
        LET t == futures[k]
        IN  /\ Returned(t) /\ ~t.late_cancel
            /\ steps # t.source
            /\ ~HasParseError(steps)
            /\ Outcome(t) # replace_text(Original(t), Compile(steps))

\* C17: a project's status becomes Done or Cancelled, or its output changes, only
\* in the step that handles the message of a returned future of that project,
\* which was InProgress: Done with the Ok content, or Cancelled with the engine's
\* motive and content; and every handled terminal message does so.
C17_RunEndsDoneOrCancelled ==
    /\ [][ \A p \in Projects :
              ( \/ text_projects'[p].output # text_projects[p].output
                \/ /\ text_projects'[p].output_status \in Terminal
                   /\ text_projects'[p].output_status # Status(p) )
              => /\ Status(p) = InProgress
                 /\ \E k \in Futures :
                       LET t == futures[k]
                       IN  /\ Returned(t) /\ t.project_index = p
                           /\ futures' = Remove(futures, k)
                           /\ text_projects'[p].output = t.content
                           /\ text_projects'[p].output_status =
                                 IF t.result = Ok THEN Done ELSE Cancelled(t.result.motive)
          ]_vars
    /\ [][ Len(futures') < Len(futures) =>
              \E k \in Futures :
                  /\ futures' = Remove(futures, k)
                  /\ Status(futures[k].project_index) = InProgress
                  /\ text_projects'[futures[k].project_index].output_status \in Terminal
                  /\ ~replacement_in_progress'
          ]_vars

C17_Witness ==
    \E p \in Projects :
        /\ Status(p) = Cancelled(CycleDetected)
        /\ text_projects[p].output # <<>>
        /\ ~replacement_in_progress
        /\ futures = <<>>

\* C18: the cancellation flag is false whenever replacement_in_progress is, and a
\* future that has not been polled yet finds it set only if CancelReplacingText
\* was handled after the future was spawned.
C18_CancelFlagNeverLeaks ==
    /\ ~replacement_in_progress => ~replacement_cancel_signal
    /\ \A k \in Futures :
          (futures[k].pc = "start" /\ replacement_cancel_signal) => futures[k].late_cancel

\* a run cancelled by hand has ended and the next run starts with the flag down
C18_Witness ==
    \E k \in Futures : \E p \in Projects :
        /\ futures[k].pc = "start"
        /\ ~replacement_cancel_signal
        /\ Status(p) = Cancelled(ManuallyCancelled)

\* C19: an InputUpdated(p, v) handled while replacement_in_progress is not set
\* leaves project p Outdated with input v and its output as it was, and every
\* other project as it was.
C19_IdleInputEditOutdates ==
    [][ \A p \in Projects : \A v \in Inputs :
          (~replacement_in_progress /\ InputUpdated(p, v)) =>
              /\ Len(text_projects') = Len(text_projects)
              /\ text_projects'[p].output_status = Outdated
              /\ text_projects'[p].input = v
              /\ text_projects'[p].output = text_projects[p].output
              /\ \A q \in Projects \ {p} : text_projects'[q] = text_projects[q]
      ]_vars

\* a project that had been cancelled or done with an output is Outdated
C19_Witness ==
    \E p \in Projects :
        /\ Status(p) = Outdated
        /\ text_projects[p].output # <<>>
        /\ text_projects[p].input # text_projects[p].output

\* C20: in a state with no run in progress, handling CancelReplacingText leaves the
\* flag false, and handling FinishReplacingText or CancelledReplacingText, for any
\* project and content, changes no project and neither flag.
C20_IdleMessagesRejected ==
    ~replacement_in_progress =>
        /\ ~ENABLED (CancelReplacingText /\ replacement_cancel_signal')
        /\ \A p \in Projects : \A c \in Inputs :
              ~ENABLED (FinishReplacingText(p, c) /\ Controller' # Controller)
        /\ \A p \in Projects : \A c \in Inputs : \A m \in CancelMotive :
              ~ENABLED (CancelledReplacingText(p, m, c) /\ Controller' # Controller)

----------------------------------------------------------------------------
(* Properties of the engine: order of steps and of checks *)

\* the content the checks of the poll of t examine
Examined(t) ==
    IF t.pc = "start" THEN t.content ELSE ApplyOne(t.steps_regexes[t.step], t.content)

\* C21: at every poll the step index stays or grows by one; it grows only from a
\* suspended iteration whose scan matched no rule of the step, with the content
\* unchanged; and a run returns Ok only from the last step, on a content that no
\* rule of that step matches.
C21_StepsInOrderToFixpoint ==
    [][ \A k \in Futures :
          Polled(k) =>
            LET t == futures[k]
                u == futures'[k]
            IN  /\ u.step \in {t.step, t.step + 1}
                /\ u.step = t.step + 1 =>
                      /\ t.pc = "sleep"
                      /\ Matching(t.steps_regexes[t.step], t.content) = {}
                      /\ u.content = t.content
                /\ (Returned(u) /\ u.result = Ok) =>
                      /\ t.pc = "sleep" /\ LastStep(t)
                      /\ Matching(t.steps_regexes[t.step], u.content) = {}
                      /\ u.content = t.content
      ]_vars

\* the second step runs, on a content that the first step changed
C21_Witness ==
    \E k \in Futures :
        /\ futures[k].step = 2
        /\ futures[k].pc = "sleep"
        /\ futures[k].content # Original(futures[k])
        /\ Len(futures[k].steps_regexes[1]) = 1
        /\ Matching(futures[k].steps_regexes[2], futures[k].content) # {}

\* C22: setting the flag changes no future; the poll that follows returns, having
\* applied at most one substitution (the scan of the iteration the engine was
\* suspended in) and added at most one iteration.
C22_OneMoreSubstitutionAtMost ==
    /\ [][ (~replacement_cancel_signal /\ replacement_cancel_signal') =>
              /\ Len(futures') = Len(futures)
              /\ \A k \in Futures :
                    [futures'[k] EXCEPT !.late_cancel = FALSE]
                        = [futures[k] EXCEPT !.late_cancel = FALSE]
          ]_vars
    /\ [][ \A k \in Futures :
              (Polled(k) /\ replacement_cancel_signal) =>
                LET t == futures[k]
                    u == futures'[k]
                IN  /\ Returned(u)
                    /\ \/ u.content = t.content
                       \/ \E j \in 1..Len(t.steps_regexes[t.step]) :
                             u.content = replace_all(t.steps_regexes[t.step][j].re, t.content,
                                                     t.steps_regexes[t.step][j].replacement)
                    /\ \/ u.seen = t.seen
                       \/ u.seen = Append(t.seen, u.content)
                       \/ u.seen = <<u.content>>
          ]_vars

\* cancelled during the first sleep of the second step: one substitution more
C22_Witness ==
    \E k \in Futures :
        /\ Returned(futures[k])
        /\ futures[k].late_cancel
        /\ futures[k].result = Err(ManuallyCancelled)
        /\ futures[k].step = 2
        /\ futures[k].applied # 0
        /\ Len(futures[k].seen) = 2

\* C23: a poll that reaches the checks examines one content (the input at the
\* first poll, the result of the scan afterwards) and reports CycleDetected if
\* the cycle check fires on it, else ManuallyCancelled if the flag is set, else
\* HighGrowth if the growth check fires, else suspends; what it returns with a
\* motive is the content examined.
C23_OrderOfChecks ==
    [][ \A k \in Futures :
          (Polled(k) /\ futures'[k].result # Ok) =>
            LET t == futures[k]
                u == futures'[k]
                c == Examined(t)
                maps == IF u.step = t.step /\ t.pc = "sleep" THEN t.hash_maps ELSE EmptyHashMaps
                cycle == CycleCheck(maps, c).cycle
                grown == GrowthCheck(Len(c), t.original_len)
            IN  /\ u.content = c
                /\ u.result = IF cycle THEN Err(CycleDetected)
                              ELSE IF replacement_cancel_signal THEN Err(ManuallyCancelled)
                              ELSE IF grown THEN Err(HighGrowth)
                              ELSE NoResult
                /\ u.result = NoResult <=> u.pc = "sleep"
      ]_vars

\* the flag was set and the content had outgrown the guard: ManuallyCancelled
C23_Witness ==
    \E k \in Futures :
        /\ Returned(futures[k])
        /\ futures[k].result = Err(ManuallyCancelled)
        /\ GrowthCheck(Len(futures[k].content), futures[k].original_len)

----------------------------------------------------------------------------
(* Properties of the cycle check *)

\* seen[i] was checksummed: its length had occurred before in the step
Hashed(seen, i) == \E h \in 1..(i - 1) : Len(seen[h]) = Len(seen[i])
\* the content of iteration n is that of an earlier, checksummed iteration
ReturnsToHashed(seen, n) == \E i \in 1..(n - 1) : Hashed(seen, i) /\ seen[i] = seen[n]
SameLength(seen) == \A i, j \in 1..Len(seen) : Len(seen[i]) = Len(seen[j])

\* C24: a run that ends CycleDetected returns a content that was at the top of an
\* earlier iteration of the same step; a step whose contents so far are pairwise
\* different has not ended CycleDetected.
C24_NoFalseCycle ==
    \A k \in Futures :
        LET t == futures[k]
            n == Len(t.seen)
        IN  /\ t.result = Err(CycleDetected) =>
                  /\ n < HistCap
                  /\ t.seen[n] = t.content
                  /\ \E i \in 1..(n - 1) : t.seen[i] = t.content
            /\ ~Repeated(t.seen) => t.result # Err(CycleDetected)

\* four different contents of one length, and the step reached its fixpoint
C24_Witness ==
    \E k \in Futures :
        /\ Returned(futures[k])
        /\ futures[k].result = Ok
        /\ Len(futures[k].seen) >= 4
        /\ SameLength(futures[k].seen)
        /\ ~Repeated(futures[k].seen)

\* C25: the poll that enters a step starts its record afresh, holding the length
\* of the content it enters with and no checksum, and does not end CycleDetected;
\* the record of a step holds the lengths of the contents of that step only.
C25_TrackingPerStep ==
    /\ [][ \A k \in Futures :
              (Polled(k) /\ (futures[k].pc = "start" \/ futures'[k].step # futures[k].step)) =>
                  /\ futures'[k].result # Err(CycleDetected)
                  /\ futures'[k].hash_maps
                        = CycleCheck(EmptyHashMaps, futures'[k].content).hash_maps
                  /\ DOMAIN futures'[k].hash_maps = {Len(futures'[k].content)}
                  /\ ~futures'[k].hash_maps[Len(futures'[k].content)].some
          ]_vars
    /\ [](\A k \in Futures :
            Len(futures[k].seen) < HistCap =>
                DOMAIN futures[k].hash_maps
                    = {Len(futures[k].seen[i]) : i \in 1..Len(futures[k].seen)})

\* the second step came back to the input and to the content it took over from
\* the first step, and the run ended Ok
C25_Witness ==
    \E k \in Futures :
        /\ Returned(futures[k])
        /\ futures[k].result = Ok
        /\ futures[k].steps_regexes = <<<<Rule(<<a>>, <<b>>)>>, <<Rule(<<b>>, <<a>>)>>>>
        /\ Original(futures[k]) = <<a>>
        /\ futures[k].content = <<a>>

\* replace_text with the check that records every checksum
RECURSIVE RunAlwaysHash(_)
RunAlwaysHash(t) ==
    Let(t, LAMBDA v :
        IF v.pc = "returned" THEN v
        ELSE LET c == Examined(v)
                 rules == v.steps_regexes[v.step]
                 stays == v.pc = "start" \/ Matching(rules, v.content) # {}
                 last == v.step = Len(v.steps_regexes)
                 w == IF stays THEN [v EXCEPT !.content = c]
                      ELSE [v EXCEPT !.step = @ + 1, !.hash_maps = EmptyHashMaps]
                 cc == CycleCheck_AlwaysHash(w.hash_maps, w.content)
             IN  IF ~stays /\ last
                 THEN [v EXCEPT !.pc = "returned", !.result = Ok]
                 ELSE IF cc.cycle
                 THEN [w EXCEPT !.pc = "returned", !.result = Err(CycleDetected)]
                 ELSE IF GrowthCheck(Len(w.content), w.original_len)
                 THEN [w EXCEPT !.pc = "returned", !.result = Err(HighGrowth)]
                 ELSE RunAlwaysHash([w EXCEPT !.pc = "sleep", !.hash_maps = cc.hash_maps]))

replace_text_AlwaysHash(original, steps_regexes) ==
    Outcome(RunAlwaysHash(NewFuture(1, original, steps_regexes, <<>>)))

\* C26: a run that was not cancelled by hand returns the result (Ok, or the
\* motive) that the engine recording every checksum returns on the same
\* pipeline and input, and the same content when the result is Ok.
C26_TwoPhaseEquivalent ==
    \A k \in Futures :
        LET t == futures[k]
        IN  (Returned(t) /\ ~t.late_cancel) =>
              LET r == replace_text_AlwaysHash(Original(t), t.steps_regexes)
              IN  /\ t.result = r.result
                  /\ t.result = Ok => t.content = r.content

\* both engines report the cycle, the two-phase one an iteration later
C26_Witness ==
    \E k \in Futures :
        /\ Returned(futures[k])
        /\ ~futures[k].late_cancel
        /\ futures[k].result = Err(CycleDetected)
        /\ replace_text_AlwaysHash(Original(futures[k]), futures[k].steps_regexes).content
              # futures[k].content

\* C27: the cycle is reported at the first iteration whose content is that of an
\* earlier iteration of the step that was not the first of its length: not
\* before (no iteration so far came back to a checksummed content unreported),
\* not later (an iteration that does so ends the run), with that iteration's
\* content; no string is at the top of the loop more than three times.
C27_DetectionDelay ==
    \A k \in Futures :
        LET t == futures[k]
            n == Len(t.seen)
        IN  n < HistCap =>
              /\ \A m \in 1..(n - 1) : ~ReturnsToHashed(t.seen, m)
              /\ n > 0 => (ReturnsToHashed(t.seen, n) <=> t.result = Err(CycleDetected))
              /\ t.result = Err(CycleDetected) => t.content = t.seen[n]
              /\ \A i \in 1..n : Count(t.seen, t.seen[i]) <= 3

\* the first return to the input went unreported, the second was reported
C27_Witness ==
    \E k \in Futures :
        /\ Returned(futures[k])
        /\ futures[k].result = Err(CycleDetected)
        /\ futures[k].seen = <<<<a>>, <<a>>, <<a>>>>

----------------------------------------------------------------------------
(* Properties of the controller: the flag, the project of a run, the outputs *)

\* StartReplacingText(q) is handled with no replacement in progress
Started(q) == ~replacement_in_progress /\ User /\ StartReplacingText(q)
Others(q) == Projects \ {q}
SameProject(p) == text_projects'[p] = text_projects[p]

\* C28: replacement_in_progress is TRUE exactly when one project is InProgress
\* and FALSE exactly when none is.
C28_FlagIffOneInProgress ==
    /\ replacement_in_progress <=> Cardinality(InProgressProjects) = 1
    /\ ~replacement_in_progress <=> Cardinality(InProgressProjects) = 0

\* a second run is in progress next to a project whose run has ended
C28_Witness ==
    /\ replacement_in_progress
    /\ \E p, q \in Projects :
          /\ Status(p) \in Terminal
          /\ text_projects[p].output # <<>>
          /\ Status(q) = InProgress
          /\ \E k \in Futures : futures[k].project_index = q

\* C29: a run keeps the project index it was started with, whatever project is
\* active; its terminal message writes the content and the status of that
\* project, which is the one that was set InProgress and whose input the run
\* took; the start and the terminal message leave every other project, and the
\* input of the project of the run, as they were.
C29_ResultToProjectOfRun ==
    /\ [][ \A q \in Projects :
              Started(q) =>
                  /\ \A p \in Others(q) : SameProject(p)
                  /\ text_projects'[q].input = text_projects[q].input
                  /\ text_projects'[q].output = text_projects[q].output
                  /\ \A k \in 1..Len(futures') :
                        k > Len(futures) => futures'[k].project_index = q
          ]_vars
    /\ [][ \A k \in Futures :
              Polled(k) => futures'[k].project_index = futures[k].project_index
          ]_vars
    /\ [][ \A k \in Futures :
              DeliverMessage(k) =>
                  LET q == futures[k].project_index
                  IN  /\ Status(q) = InProgress
                      /\ text_projects[q].input = Original(futures[k])
                      /\ text_projects'[q].input = text_projects[q].input
                      /\ text_projects'[q].output = futures[k].content
                      /\ text_projects'[q].output_status
                            = IF futures[k].result = Ok THEN Done
                              ELSE Cancelled(futures[k].result.motive)
                      /\ \A p \in Others(q) : SameProject(p)
          ]_vars

\* a run has returned and its project is not the active one; the active project
\* was never run
C29_Witness ==
    \E k \in Futures :
        /\ Returned(futures[k])
        /\ futures[k].project_index # active_text_project
        /\ futures[k].content # text_projects[futures[k].project_index].output
        /\ text_projects[active_text_project] = TextProjectDefault

\* C30: the output of a project changes only in the step that handles the
\* terminal message of a run on that project; StartReplacingText,
\* CancelReplacingText, InputUpdated, OutputUpdated and the polls of the engine
\* leave every output as it is.
C30_OutputOnlyByTerminalMessage ==
    /\ [][ \A p \in Projects :
              text_projects'[p].output # text_projects[p].output =>
                  \E k \in Futures : DeliverMessage(k) /\ futures[k].project_index = p
          ]_vars
    /\ [][ ( \/ \E q \in Projects : User /\ StartReplacingText(q)
             \/ User /\ CancelReplacingText
             \/ \E q \in Projects : \E v \in Inputs : User /\ InputUpdated(q, v)
             \/ \E q \in Projects : \E v \in Inputs : User /\ OutputUpdated(q, v)
             \/ \E k \in Futures : PollFuture(k) ) =>
            \A p \in Projects : text_projects'[p].output = text_projects[p].output
          ]_vars

\* a second run on a project is suspended with a content that is neither its
\* input nor the output the project still shows from the first run
C30_Witness ==
    \E k \in Futures :
        LET p == futures[k].project_index
        IN  /\ Status(p) = InProgress
            /\ futures[k].pc = "sleep"
            /\ text_projects[p].output # <<>>
            /\ futures[k].content # text_projects[p].output
            /\ futures[k].content # text_projects[p].input

----------------------------------------------------------------------------
(* replace_text on pipelines that grow the text and stop *)

GrowthRules ==
    { Rule(<<a>>, Repeat(b, 5)), Rule(<<a>>, <<b>>), Rule(<<a>>, <<a, a>>),
      Rule(<<b>>, <<>>) }

GrowthInputs ==
    { <<>>, Repeat(a, 10), Repeat(a, 200), Repeat(a, 250), Repeat(a, 1200) }

\* the pipelines of n steps holding up to m rules of GrowthRules in all
RECURSIVE GrowthPipelinesOf(_, _)
GrowthPipelinesOf(n, m) ==
    IF n = 0 THEN {<<>>}
    ELSE UNION {{<<s>> \o p : p \in GrowthPipelinesOf(n - 1, m - Len(s))} :
                    s \in UNION {[1..k -> GrowthRules] : k \in 0..m}}

GrowthPipelines == UNION {GrowthPipelinesOf(n, MaxPipelineRules) : n \in 1..MaxSteps}

InitGrowth ==
    \E input \in GrowthInputs : \E p \in GrowthPipelines :
        /\ steps = StepsOf(p)
        /\ text_projects = <<[input |-> input, output |-> <<>>, output_status |-> InProgress]>>
        /\ active_text_project = 1
        /\ replacement_in_progress = TRUE
        /\ replacement_cancel_signal = FALSE
        /\ futures = <<NewFuture(1, input, Compile(steps), steps)>>
        /\ handled = 0

SpecGrowth == InitGrowth /\ [][NextEngine]_vars

\* C31: a content returned as Ok by a run on a pipeline of at least one step is
\* not longer than both 4 times the input and 1000: it is the content the last
\* iteration, which found no rule matching, had checked against the growth guard.
C31_OkWithinGrowthBound ==
    \A k \in Futures :
        LET t == futures[k]
        IN  (Returned(t) /\ t.result = Ok /\ Len(t.steps_regexes) >= 1) =>
              /\ ~(Len(t.content) > 4 * Len(Original(t)) /\ Len(t.content) > 1000)
              /\ t.seen # <<>>
              /\ t.seen[Len(t.seen)] = t.content
              /\ ~GrowthCheck(Len(t.content), t.original_len)

\* a run ended Ok with five times its input, 1000 characters
C31_Witness ==
    \E k \in Futures :
        /\ Returned(futures[k])
        /\ futures[k].result = Ok
        /\ Len(futures[k].content) > 4 * Len(Original(futures[k]))
        /\ Len(futures[k].content) = 1000

====
